---- MODULE Spec2Model ----
\* Model of package config (src/internal/config/config.go): the process
\* environment, the loader, New, and the nine read-only accessors of Config.
EXTENDS Integers, Sequences, FiniteSets, TLC

\* ---------------------------------------------------------------- bounds
\* At most MaxSet environment variables are set at once.
MaxSet == 2
\* At most MaxCalls calls of New per run.
MaxCalls == 2
\* Number of concurrent readers of a Config.
NumReaders == 2
\* At most MaxErrs errors appended to one loader.
MaxErrs == 2

\* ------------------------------------------------------- program constants
LogLevelDebug == "debug"
LogLevelInfo == "info"
LogLevelWarn == "warn"
LogLevelError == "error"

LogFormatText == "text"
LogFormatJSON == "json"

LogOutputStdout == "stdout"
LogOutputStderr == "stderr"

EnvLogLevel == "LOG_LEVEL"
EnvLogFormat == "LOG_FORMAT"
EnvLogOutput == "LOG_OUTPUT"
EnvServerAddress == "SERVER_ADDRESS"
EnvServerReadTimeout == "SERVER_READ_TIMEOUT"
EnvServerReadHeaderTimeout == "SERVER_READ_HEADER_TIMEOUT"
EnvServerWriteTimeout == "SERVER_WRITE_TIMEOUT"
EnvServerIdleTimeout == "SERVER_IDLE_TIMEOUT"
EnvServerShutdownTimeout == "SERVER_SHUTDOWN_TIMEOUT"

\* time.Second, counted in milliseconds (a time.Duration counts nanoseconds;
\* every duration of the model is a whole number of milliseconds).
Second == 1000

DefaultLogLevel == LogLevelInfo
DefaultLogFormat == LogFormatText
DefaultLogOutput == LogOutputStdout
DefaultServerAddress == "localhost:8080"
DefaultServerReadTimeout == 5 * Second
DefaultServerReadHeaderTimeout == 2 * Second
DefaultServerWriteTimeout == 10 * Second
DefaultServerIdleTimeout == 60 * Second
DefaultServerShutdownTimeout == 15 * Second

TCPPortMin == 0
TCPPortMax == 65535

\* The nine variables, in the order New resolves their fields.
EnvVars ==
  << EnvLogLevel, EnvLogFormat, EnvLogOutput, EnvServerAddress,
     EnvServerReadTimeout, EnvServerReadHeaderTimeout, EnvServerWriteTimeout,
     EnvServerIdleTimeout, EnvServerShutdownTimeout >>

\* The nine fields of Config, in declaration order.
Fields ==
  << "logLevel", "logFormat", "logOutput", "serverAddress",
     "serverReadTimeout", "serverReadHeaderTimeout", "serverWriteTimeout",
     "serverIdleTimeout", "serverShutdownTimeout" >>

EnvVarSet == { EnvVars[i] : i \in 1..Len(EnvVars) }
FieldSet == { Fields[i] : i \in 1..Len(Fields) }

\* ------------------------------------------------------------- environment
\* The raw values a variable may hold in the environments explored.
EnvValues(k) ==
  CASE k = EnvLogLevel -> { "", "verbose" }
    [] k = EnvLogFormat -> { "json", "yaml" }
    [] k = EnvLogOutput -> { "stderr", "/var/log/app.log" }
    [] k = EnvServerAddress ->
         { "bad", "localhost:0", "localhost:65535", "localhost:65536",
           "localhost:-1" }
    [] k = EnvServerReadTimeout -> { "5s", "not-a-duration" }
    [] OTHER -> { "30s", "not-a-duration" }

AllEnvValues == UNION { EnvValues(k) : k \in EnvVarSet }

\* A process environment: the variables that are set, with their values.
Envs ==
  UNION { { e \in [S -> AllEnvValues] : \A k \in S : e[k] \in EnvValues(k) } :
          S \in { T \in SUBSET EnvVarSet : Cardinality(T) <= MaxSet } }

\* ------------------------------------------------------------------ errors
NilErr == [kind |-> "nil"]

\* An error about one variable and its raw value.
FieldError(var, value) == [kind |-> "field", var |-> var, value |-> value]

\* The errors handed to appendError in the runs explored.
ErrInputs ==
  { NilErr, FieldError(EnvLogLevel, "verbose"),
    FieldError(EnvServerAddress, "bad") }

\* errors.Join: drops nil errors; nil when none is left.
Join(errs) ==
  LET nn == SelectSeq(errs, LAMBDA e : e # NilErr)
  IN IF Len(nn) = 0 THEN NilErr ELSE [kind |-> "join", errs |-> nn]

\* fmt.Errorf("failed to load config: %w", err)
Errorf(err) == [kind |-> "wrap", msg |-> "failed to load config", err |-> err]

VARIABLES
  env,       \* the process environment (read-only to the package)
  l,         \* a loader held by an in-package caller
  heap,      \* the Config objects allocated by New, by address 1..Len(heap)
  fixed,     \* ghost: each Config as New constructed it
  rets,      \* the (pointer, error) pair each call of New returned
  observed,  \* the last accessor call: reader, Config, field, returned value
  appended,  \* ghost: the errors handed to appendError on l, in call order
  errRet     \* the last call of Err on l: what it returned, and for which calls

vars == << env, l, heap, fixed, rets, observed, appended, errRet >>

\* ------------------------------------------------------------------ loader
newLoader_shared == l

newLoader == [errs |-> << >>]

logLevel(ld) == [l |-> ld, ret |-> ""]

logFormat(ld) == [l |-> ld, ret |-> ""]

logOutput(ld) == [l |-> ld, ret |-> ""]

serverAddress(ld) == [l |-> ld, ret |-> ""]

serverReadTimeout(ld) == [l |-> ld, ret |-> 0]

serverReadHeaderTimeout(ld) == [l |-> ld, ret |-> 0]

serverWriteTimeout(ld) == [l |-> ld, ret |-> 0]

serverIdleTimeout(ld) == [l |-> ld, ret |-> 0]

serverShutdownTimeout(ld) == [l |-> ld, ret |-> 0]

appendError_reset(ld, err) == [ld EXCEPT !.errs = << err >>]

appendError(ld, err) == [ld EXCEPT !.errs = Append(@, err)]

Err(ld) == IF Len(ld.errs) = 0 THEN NilErr ELSE Join(ld.errs)

\* --------------------------------------------------------------- accessors
\* Each accessor yields the Config it leaves behind and the value it returns.
LogLevel(c) == [c |-> c, ret |-> c.logLevel]

LogFormat(c) == [c |-> c, ret |-> c.logFormat]

LogOutput(c) == [c |-> c, ret |-> c.logOutput]

ServerAddress(c) == [c |-> c, ret |-> c.serverAddress]

ServerReadTimeout_lazy(c) ==
  [c |-> [c EXCEPT !.serverReadTimeout = DefaultServerReadTimeout],
   ret |-> c.serverReadTimeout]

ServerReadTimeout(c) == [c |-> c, ret |-> c.serverReadTimeout]

ServerReadHeaderTimeout(c) == [c |-> c, ret |-> c.serverReadHeaderTimeout]

ServerWriteTimeout(c) == [c |-> c, ret |-> c.serverWriteTimeout]

ServerIdleTimeout(c) == [c |-> c, ret |-> c.serverIdleTimeout]

ServerShutdownTimeout(c) == [c |-> c, ret |-> c.serverShutdownTimeout]

\* The accessor of field f, applied to Config c.
Accessor(f, c) ==
  CASE f = "logLevel" -> LogLevel(c)
    [] f = "logFormat" -> LogFormat(c)
    [] f = "logOutput" -> LogOutput(c)
    [] f = "serverAddress" -> ServerAddress(c)
    [] f = "serverReadTimeout" -> ServerReadTimeout(c)
    [] f = "serverReadHeaderTimeout" -> ServerReadHeaderTimeout(c)
    [] f = "serverWriteTimeout" -> ServerWriteTimeout(c)
    [] f = "serverIdleTimeout" -> ServerIdleTimeout(c)
    [] f = "serverShutdownTimeout" -> ServerShutdownTimeout(c)

\* ------------------------------------------------------------------- state
NoObservation == [reader |-> 0, cfg |-> 0, field |-> "", val |-> ""]

NoErrCall == [called |-> FALSE, val |-> NilErr, of |-> << >>]

Init ==
  /\ env \in Envs
  /\ l = [errs |-> << >>]
  /\ heap = << >>
  /\ fixed = << >>
  /\ rets = << >>
  /\ observed = NoObservation
  /\ appended = << >>
  /\ errRet = NoErrCall

\* New(): a fresh loader resolves the nine fields in order; the Config is
\* returned unless the loader holds an error.
New ==
  /\ Len(rets) < MaxCalls
  /\ LET l0 == newLoader
         r1 == logLevel(l0)
         r2 == logFormat(r1.l)
         r3 == logOutput(r2.l)
         r4 == serverAddress(r3.l)
         r5 == serverReadTimeout(r4.l)
         r6 == serverReadHeaderTimeout(r5.l)
         r7 == serverWriteTimeout(r6.l)
         r8 == serverIdleTimeout(r7.l)
         r9 == serverShutdownTimeout(r8.l)
         cfg == [ logLevel |-> r1.ret,
                  logFormat |-> r2.ret,
                  logOutput |-> r3.ret,
                  serverAddress |-> r4.ret,
                  serverReadTimeout |-> r5.ret,
                  serverReadHeaderTimeout |-> r6.ret,
                  serverWriteTimeout |-> r7.ret,
                  serverIdleTimeout |-> r8.ret,
                  serverShutdownTimeout |-> r9.ret ]
         err == Err(r9.l)
     IN /\ heap' = Append(heap, cfg)
        /\ fixed' = Append(fixed, cfg)
        /\ rets' = Append(rets,
                     IF err # NilErr
                       THEN [cfg |-> 0, err |-> Errorf(err),
                             carried |-> l0.errs]
                       ELSE [cfg |-> Len(heap) + 1, err |-> NilErr,
                             carried |-> l0.errs])
  /\ UNCHANGED << env, l, observed, appended, errRet >>

\* An in-package caller obtains a loader.
NewLoader ==
  /\ l.errs # << >>
  /\ l' = newLoader
  /\ appended' = << >>
  /\ UNCHANGED << env, heap, fixed, rets, observed, errRet >>

\* An in-package caller records an error on its loader.
AppendError ==
  /\ Len(l.errs) < MaxErrs
  /\ Len(appended) < MaxErrs
  /\ \E e \in ErrInputs :
       /\ l' = appendError(l, e)
       /\ appended' = Append(appended, e)
  /\ UNCHANGED << env, heap, fixed, rets, observed, errRet >>

\* An in-package caller asks its loader for the joined error.
ErrCall ==
  /\ errRet' = [called |-> TRUE, val |-> Err(l), of |-> appended]
  /\ UNCHANGED << env, l, heap, fixed, rets, observed, appended >>

\* Reader r calls the accessor of field f on a Config that New returned.
Access ==
  \E r \in 1..NumReaders, i \in 1..Len(rets), f \in FieldSet :
    /\ rets[i].cfg # 0
    /\ LET a == Accessor(f, heap[rets[i].cfg])
       IN /\ heap' = [heap EXCEPT ![rets[i].cfg] = a.c]
          /\ observed' = [reader |-> r, cfg |-> rets[i].cfg, field |-> f,
                          val |-> a.ret]
    /\ UNCHANGED << env, l, fixed, rets, appended, errRet >>

\* ------------------------------------------- the documented configuration
\* os.Getenv: the value of variable k, "" when k is unset.
Getenv(k) == IF k \in DOMAIN env THEN env[k] ELSE ""

\* The port of a "<host>:port" value; NoPort when the value has no port.
NoPort == 0 - 2

PortOf(v) ==
  CASE v = "localhost:0" -> 0
    [] v = "localhost:8080" -> 8080
    [] v = "localhost:65535" -> 65535
    [] v = "localhost:65536" -> 65536
    [] v = "localhost:-1" -> 0 - 1
    [] OTHER -> NoPort

\* time.ParseDuration on the values explored; NoDuration when it fails.
NoDuration == 0 - 1

ParseDuration(v) ==
  CASE v = "5s" -> 5 * Second
    [] v = "30s" -> 30 * Second
    [] v = "1m" -> 60 * Second
    [] OTHER -> NoDuration

LogLevels == { LogLevelDebug, LogLevelInfo, LogLevelWarn, LogLevelError }

LogFormats == { LogFormatText, LogFormatJSON }

TimeoutVars ==
  { EnvServerReadTimeout, EnvServerReadHeaderTimeout, EnvServerWriteTimeout,
    EnvServerIdleTimeout, EnvServerShutdownTimeout }

\* The documented format of variable k accepts the non-empty raw value v.
ValidRaw(k, v) ==
  CASE k = EnvLogLevel -> v \in LogLevels
    [] k = EnvLogFormat -> v \in LogFormats
    [] k = EnvLogOutput -> TRUE
    [] k = EnvServerAddress ->
         PortOf(v) # NoPort /\ PortOf(v) >= TCPPortMin /\ PortOf(v) <= TCPPortMax
    [] OTHER -> ParseDuration(v) # NoDuration

\* The documented default of variable k.
Default(k) ==
  CASE k = EnvLogLevel -> DefaultLogLevel
    [] k = EnvLogFormat -> DefaultLogFormat
    [] k = EnvLogOutput -> DefaultLogOutput
    [] k = EnvServerAddress -> DefaultServerAddress
    [] k = EnvServerReadTimeout -> DefaultServerReadTimeout
    [] k = EnvServerReadHeaderTimeout -> DefaultServerReadHeaderTimeout
    [] k = EnvServerWriteTimeout -> DefaultServerWriteTimeout
    [] k = EnvServerIdleTimeout -> DefaultServerIdleTimeout
    [] k = EnvServerShutdownTimeout -> DefaultServerShutdownTimeout

\* Variable k is unset or empty.
Absent(k) == Getenv(k) = ""

\* Variable k is present and its value is outside the documented format.
Invalid(k) == ~Absent(k) /\ ~ValidRaw(k, Getenv(k))

\* The value the documentation gives the field of variable k (k not Invalid).
Want(k) ==
  IF Absent(k) THEN Default(k)
  ELSE IF k \in TimeoutVars THEN ParseDuration(Getenv(k))
  ELSE Getenv(k)

\* The value of field f is one the documentation allows a Config to hold.
ValidField(f, v) ==
  CASE f = "logLevel" -> v \in LogLevels
    [] f = "logFormat" -> v \in LogFormats
    [] f = "logOutput" -> v # ""
    [] f = "serverAddress" ->
         PortOf(v) # NoPort /\ PortOf(v) >= TCPPortMin /\ PortOf(v) <= TCPPortMax
    [] OTHER -> v >= 0

\* The invalid variables, in field resolution order.
InvalidVars == SelectSeq(EnvVars, LAMBDA k : Invalid(k))

\* ------------------------------------------------- reading what New returned
Calls == 1..Len(rets)

Succeeded(i) == rets[i].cfg # 0 /\ rets[i].err = NilErr

Failed(i) == rets[i].cfg = 0 /\ rets[i].err # NilErr

\* What the accessor of field f returns on the Config of call i.
Get(i, f) == Accessor(f, heap[rets[i].cfg]).ret

\* The nine accessor results of the Config of call i.
Outputs(i) == [n \in 1..Len(Fields) |-> Get(i, Fields[n])]

\* The individual failures joined in the error e that New returned.
Failures(e) ==
  IF e.kind # "wrap" THEN << >>
  ELSE IF e.err.kind = "join" THEN e.err.errs
  ELSE << e.err >>

\* The variables the failures of e are about, in order.
FailedVars(e) == [j \in 1..Len(Failures(e)) |-> Failures(e)[j].var]

\* e holds a failure that names variable k and its raw value.
Mentions(e, k) ==
  \E j \in 1..Len(Failures(e)) :
    Failures(e)[j] = FieldError(k, Getenv(k))

\* e holds a failure about variable k.
Blames(e, k) == \E j \in 1..Len(Failures(e)) : Failures(e)[j].var = k

\* -------------------------------------------------------------------- claims

\* C1: with all nine variables unset, New returns a non-nil Config and a nil
\* error, and every accessor returns its documented default.
NewDefaultsWhenUnset ==
  \A i \in Calls :
    DOMAIN env = {} =>
      /\ Succeeded(i)
      /\ \A n \in 1..Len(Fields) : Get(i, Fields[n]) = Default(EnvVars[n])

\* C2: New returns exactly one of (Config, nil) and (nil, error); it returns
\* (nil, error) exactly when some variable is invalid, and every field of a
\* returned Config is valid.
NewAllOrNothing ==
  \A i \in Calls :
    /\ Succeeded(i) \/ Failed(i)
    /\ Failed(i) <=> (\E k \in EnvVarSet : Invalid(k))
    /\ Succeeded(i) =>
         \A n \in 1..Len(Fields) : ValidField(Fields[n], Get(i, Fields[n]))

\* C3: the error New returns holds one failure per invalid variable, in field
\* resolution order, whichever subset of the variables is invalid.
NewReportsEveryFailure ==
  \A i \in Calls :
    InvalidVars # << >> =>
      /\ Failed(i)
      /\ FailedVars(rets[i].err) = InvalidVars

\* C4: a variable that is present but invalid makes New fail with an error
\* naming the variable and its raw value; an unset or empty variable takes its
\* default and records no error.
InvalidNeverDefaulted ==
  \A i \in Calls : \A n \in 1..Len(EnvVars) :
    /\ Invalid(EnvVars[n]) =>
         Failed(i) /\ Mentions(rets[i].err, EnvVars[n])
    /\ Absent(EnvVars[n]) =>
         /\ ~Blames(rets[i].err, EnvVars[n])
         /\ Succeeded(i) => Get(i, Fields[n]) = Default(EnvVars[n])

\* C5: with exactly one variable set, to a valid value, New succeeds, the
\* accessor of that field returns the override and the other eight accessors
\* return their defaults.
SingleOverrideKeepsDefaults ==
  \A i \in Calls :
    (Cardinality(DOMAIN env) = 1
       /\ \A k \in DOMAIN env : ~Absent(k) /\ ~Invalid(k)) =>
      /\ Succeeded(i)
      /\ \A n \in 1..Len(Fields) : Get(i, Fields[n]) = Want(EnvVars[n])

\* C6: a SERVER_ADDRESS whose port lies in [TCPPortMin, TCPPortMax], bounds
\* included, is accepted and returned by ServerAddress; a port outside the
\* range makes New fail with an error about SERVER_ADDRESS.
PortBoundsInclusive ==
  \A i \in Calls :
    LET v == Getenv(EnvServerAddress)
    IN PortOf(v) # NoPort =>
         /\ (PortOf(v) >= TCPPortMin /\ PortOf(v) <= TCPPortMax
               /\ InvalidVars = << >>) =>
              Succeeded(i) /\ Get(i, "serverAddress") = v
         /\ (PortOf(v) < TCPPortMin \/ PortOf(v) > TCPPortMax) =>
              Failed(i) /\ Mentions(rets[i].err, EnvServerAddress)

\* C7: SERVER_READ_TIMEOUT is parsed as a duration: "5s" gives a read timeout
\* of exactly five seconds, a value that is no duration makes New fail with an
\* error naming the variable and the value.
ReadTimeoutParsed ==
  \A i \in Calls :
    LET v == Getenv(EnvServerReadTimeout)
    IN /\ (v = "5s" /\ InvalidVars = << >>) =>
            Succeeded(i) /\ Get(i, "serverReadTimeout") = 5 * Second
       /\ (v # "" /\ ParseDuration(v) = NoDuration) =>
            Failed(i) /\ Mentions(rets[i].err, EnvServerReadTimeout)

\* C10: every non-empty LOG_OUTPUT is accepted without an error and returned
\* verbatim by LogOutput; LOG_LEVEL and LOG_FORMAT are rejected outside their
\* closed sets.
LogOutputArbitrary ==
  \A i \in Calls :
    /\ ~Absent(EnvLogOutput) =>
         /\ ~Blames(rets[i].err, EnvLogOutput)
         /\ Succeeded(i) => Get(i, "logOutput") = Getenv(EnvLogOutput)
    /\ \A k \in { EnvLogLevel, EnvLogFormat } :
         Invalid(k) => Failed(i) /\ Blames(rets[i].err, k)


\* C8: New is idempotent and keeps no state between calls: any two calls under
\* the same environment return the same error and Configs whose nine accessors
\* agree pairwise, and the loader of a call starts without the errors recorded
\* on any earlier loader.
NewIdempotent ==
  \A i \in Calls : \A j \in Calls :
    /\ rets[i].carried = << >>
    /\ (rets[i].cfg = 0) <=> (rets[j].cfg = 0)
    /\ rets[i].err = rets[j].err
    /\ (rets[i].cfg # 0 /\ rets[j].cfg # 0) => Outputs(i) = Outputs(j)

\* Two calls of New returned two distinct Configs under an environment with no
\* overrides, the second after errors were recorded on another loader.
TwoCallsReturned ==
  /\ Len(rets) = 2
  /\ DOMAIN env = {}
  /\ rets[1].cfg # 0 /\ rets[2].cfg # 0 /\ rets[1].cfg # rets[2].cfg
  /\ l.errs # << >>

\* C9: a Config never changes after New returned it: whatever accessors the
\* readers call, in whatever order, every Config equals what New constructed
\* and every accessor call returns the value fixed at construction.
ConfigImmutable ==
  /\ heap = fixed
  /\ observed.cfg # 0 =>
       observed.val = fixed[observed.cfg][observed.field]

\* Both readers have been calling accessors: the second reader has just read
\* the read timeout of the first Config while a second Config exists.
ReaderObserved ==
  /\ Len(rets) = 2
  /\ observed.reader = 2
  /\ observed.cfg = 1
  /\ observed.field = "serverReadTimeout"


\* The non-nil errors of a sequence of errors, in order.
NonNil(errs) == SelectSeq(errs, LAMBDA e : e # NilErr)

\* C11 (as stated): Err returns nil exactly when appendError was never called;
\* otherwise it returns a joined error holding every appended error once, in
\* the order appended; the loader's list is the list of appended errors.
ErrNilIffNeverAppended ==
  /\ l.errs = appended
  /\ errRet.called =>
       /\ errRet.val = NilErr <=> errRet.of = << >>
       /\ errRet.val # NilErr =>
            errRet.val.kind = "join" /\ errRet.val.errs = errRet.of

\* C11 (amended): Err returns nil exactly when no non-nil error was appended;
\* otherwise it returns a joined error holding every non-nil appended error
\* once, in the order appended. appendError only extends the loader's list,
\* which is always the list of appended errors (nil ones included), and Err
\* leaves it alone.
ErrJoinsNonNilAppended ==
  /\ l.errs = appended
  /\ errRet.called =>
       /\ errRet.val = NilErr <=> NonNil(errRet.of) = << >>
       /\ errRet.val # NilErr =>
            errRet.val.kind = "join" /\ errRet.val.errs = NonNil(errRet.of)

\* Err was called after two errors were appended, in a given order, and it
\* returned their join while the loader still holds both.
ErrCalledAfterAppends ==
  /\ errRet.called
  /\ errRet.of = << FieldError(EnvServerAddress, "bad"),
                    FieldError(EnvLogLevel, "verbose") >>
  /\ errRet.val # NilErr
  /\ l.errs = errRet.of

\* Construction: calls of New, and in-package use of a loader.
Next == New \/ NewLoader \/ AppendError

Spec == Init /\ [][Next]_vars

\* Consumption: calls of New interleaved with the readers' accessor calls.
NextReaders == New \/ Access

SpecReaders == Init /\ [][NextReaders]_vars

\* A loader on its own: an in-package caller creates loaders, appends errors
\* and asks for the joined error, under the environment with nothing set.
InitLoader == Init /\ DOMAIN env = {}

NextLoader == NewLoader \/ AppendError \/ ErrCall

SpecLoader == InitLoader /\ [][NextLoader]_vars

====
